---- MODULE Spec2Model ----
(***************************************************************************)
(* Model of GOnetstat (gonetstat.go): the decoding of /proc/net/{tcp,udp,  *)
(* tcp6,udp6} into Process records, and the inode -> pid scan.             *)
(*                                                                         *)
(* A Go string is modelled as a sequence of one-character strings, so that *)
(* splitting, slicing, hexadecimal parsing and decimal formatting are      *)
(* computed character by character as the code computes them.              *)
(* A call that can end the program returns [st, v] with st one of          *)
(*   "ok"    the value v was produced,                                     *)
(*   "exit"  os.Exit(1) was called,                                        *)
(*   "panic" a Go run-time panic (index or slice bounds out of range).     *)
(***************************************************************************)
EXTENDS Integers, Sequences, FiniteSets, TLC

VARIABLES
    host,       \* the host process: "running", "exited" (os.Exit), "panicked"
    STATEmap,   \* the package-level map STATE (STATE is a reserved word here)
    stdout,     \* what the library printed, one tag per Print call
    pc,         \* per call: "idle", "loop", "done"
    t,          \* per call: the selector given to netstat
    file,       \* per call: what ioutil.ReadFile observed
    data,       \* per call: the lines getData returned
    idx,        \* per call: position of the range loop in data (0-based)
    Processes,  \* per call: the slice netstat accumulates
    ret,        \* per call: the slice returned to the caller
    ipIn,       \* HexCodec harness: the address token given to convertIP
    ipRes,      \* HexCodec harness: result of convertIP, or the token "none"
    links,      \* findPid harness: the glob result with each link's target
    inode,      \* findPid harness: the inode searched for
    pidPc,      \* findPid harness: "scan" or "done"
    pidIdx,     \* findPid harness: position of the range loop in links
    pid         \* findPid harness: the local variable pid

netVars == <<host, STATEmap, stdout, pc, t, file, data, idx, Processes, ret>>
ipVars  == <<ipIn, ipRes>>
pidVars == <<links, inode, pidPc, pidIdx, pid>>
vars    == <<netVars, ipVars, pidVars>>

----------------------------------------------------------------------------
(* Go string primitives *)

\* strings.Split(s, sep) for a one-character separator: the pieces between
\* consecutive occurrences of sep, one more piece than there are occurrences
Split(s, sep) ==
    LET seps == {i \in 1..Len(s) : s[i] = sep}
        n    == Cardinality(seps)
        pos  == [k \in 0..(n + 1) |->
                    IF k = 0 THEN 0
                    ELSE IF k = n + 1 THEN Len(s) + 1
                    ELSE CHOOSE i \in seps :
                             Cardinality({j \in seps : j < i}) = k - 1]
    IN  [k \in 1..(n + 1) |-> SubSeq(s, pos[k - 1] + 1, pos[k] - 1)]

WhiteSpace == {" ", "\t", "\n", "\r", "\f"}

RECURSIVE TrimLeft(_)
TrimLeft(s) ==
    IF s # <<>> /\ Head(s) \in WhiteSpace THEN TrimLeft(Tail(s)) ELSE s

RECURSIVE TrimRight(_)
TrimRight(s) ==
    IF s # <<>> /\ s[Len(s)] \in WhiteSpace
    THEN TrimRight(SubSeq(s, 1, Len(s) - 1)) ELSE s

\* strings.TrimSpace
TrimSpace(s) == TrimRight(TrimLeft(s))

\* Go's s[a:b] (0-based, half open); SliceOK is the run-time bounds check
SliceOK(s, a, b) == a <= b /\ b <= Len(s)
Slice(s, a, b) == SubSeq(s, a + 1, b)

RECURSIVE Join(_, _)
Join(parts, sep) ==
    IF parts = <<>> THEN <<>>
    ELSE IF Len(parts) = 1 THEN parts[1]
    ELSE parts[1] \o sep \o Join(Tail(parts), sep)

----------------------------------------------------------------------------
(* strconv.ParseInt(h, 16, 32) and the %v rendering of an int64 *)

HexDigits == <<"0", "1", "2", "3", "4", "5", "6", "7", "8", "9",
               "a", "b", "c", "d", "e", "f">>
HexUpper  == <<"0", "1", "2", "3", "4", "5", "6", "7", "8", "9",
               "A", "B", "C", "D", "E", "F">>

IsHexDigit(c) == \E k \in 1..16 : HexDigits[k] = c \/ HexUpper[k] = c
HexVal(c) == (CHOOSE k \in 1..16 : HexDigits[k] = c \/ HexUpper[k] = c) - 1

\* the largest value of bitSize 32: 1<<31 - 1
MaxInt == 2147483647

RECURSIVE ParseUintRec(_, _, _)
ParseUintRec(s, i, acc) ==
    IF i > Len(s) THEN [ok |-> TRUE, v |-> acc]
    ELSE IF ~IsHexDigit(s[i]) THEN [ok |-> FALSE, v |-> 0]
    ELSE ParseUintRec(s, i + 1, acc * 16 + HexVal(s[i]))

ParseInt(h) ==
    IF h = <<>> THEN [ok |-> FALSE, v |-> 0]
    ELSE LET neg  == Head(h) = "-"
             body == IF Head(h) \in {"+", "-"} THEN Tail(h) ELSE h
             un   == IF body = <<>> THEN [ok |-> FALSE, v |-> 0]
                     ELSE ParseUintRec(body, 1, 0)
         IN  IF ~un.ok THEN un
             ELSE IF ~neg /\ un.v > MaxInt THEN [ok |-> FALSE, v |-> MaxInt]
             ELSE IF neg /\ un.v > MaxInt + 1 THEN [ok |-> FALSE, v |-> -(MaxInt + 1)]
             ELSE [ok |-> TRUE, v |-> IF neg THEN -un.v ELSE un.v]

hexToDec(h) ==
    LET r == ParseInt(h)
    IN  IF r.ok THEN [st |-> "ok", v |-> r.v] ELSE [st |-> "exit", v |-> 0]

DecDigits == <<"0", "1", "2", "3", "4", "5", "6", "7", "8", "9">>

RECURSIVE FormatNat(_)
FormatNat(n) ==
    IF n < 10 THEN <<DecDigits[n + 1]>>
    ELSE Append(FormatNat(n \div 10), DecDigits[(n % 10) + 1])

\* fmt's %v of an int64
FormatInt(n) == IF n < 0 THEN <<"-">> \o FormatNat(-n) ELSE FormatNat(n)

----------------------------------------------------------------------------
(* convertIP *)

\* the sixteen 2-character slices, i[k] = ip[30-2k : 32-2k]
IPv6Bytes(ip) == [k \in 0..15 |-> Slice(ip, 30 - 2 * k, 32 - 2 * k)]

\* the order in which Sprintf places the slices
IPv6Order == << <<14, 15>>, <<13, 12>>, <<10, 11>>, <<8, 9>>,
                <<6, 7>>, <<4, 5>>, <<2, 3>>, <<0, 1>> >>

\* a slip that renders the octets in token order
IPv4OrderForward == <<0, 2, 4, 6>>

\* the order in which the four octets are rendered: ip[6:8], ip[4:6], ...
IPv4Order == <<6, 4, 2, 0>>

convertIP(ip) ==
    IF Len(ip) > 8
    THEN IF ~SliceOK(ip, 30, 32) THEN [st |-> "panic", v |-> <<>>]
         ELSE LET i == IPv6Bytes(ip)
              IN  [st |-> "ok",
                   v  |-> Join([g \in 1..8 |-> i[IPv6Order[g][1]] \o i[IPv6Order[g][2]]],
                               <<":">>)]
    ELSE IF ~SliceOK(ip, 6, 8) THEN [st |-> "panic", v |-> <<>>]
         ELSE LET i == [k \in 1..4 |-> hexToDec(Slice(ip, IPv4Order[k], IPv4Order[k] + 2))]
              IN  IF \E k \in 1..4 : i[k].st # "ok" THEN [st |-> "exit", v |-> <<>>]
                  ELSE [st |-> "ok",
                        v  |-> Join([k \in 1..4 |-> FormatInt(i[k].v)], <<".">>)]

----------------------------------------------------------------------------
(* The string literals of the program *)

PROC_TCP  == "/proc/net/tcp"
PROC_UDP  == "/proc/net/udp"
PROC_TCP6 == "/proc/net/tcp6"
PROC_UDP6 == "/proc/net/udp6"

SOCKET_STATE_ESTABLISHED == <<"0", "1">>
SOCKET_STATE_SYN_SENT    == <<"0", "2">>
SOCKET_STATE_SYN_RECV    == <<"0", "3">>
SOCKET_STATE_FIN_WAIT1   == <<"0", "4">>
SOCKET_STATE_FIN_WAIT2   == <<"0", "5">>
SOCKET_STATE_TIME_WAIT   == <<"0", "6">>
SOCKET_STATE_CLOSE       == <<"0", "7">>
SOCKET_STATE_CLOSE_WAIT  == <<"0", "8">>
SOCKET_STATE_LAST_ACK    == <<"0", "9">>
SOCKET_STATE_LISTEN      == <<"0", "A">>
SOCKET_STATE_CLOSING     == <<"0", "B">>

\* the initial value of the package variable STATE
InitialSTATE ==
    SOCKET_STATE_ESTABLISHED :> <<"E", "S", "T", "A", "B", "L", "I", "S", "H", "E", "D">> @@
    SOCKET_STATE_SYN_SENT    :> <<"S", "Y", "N", "_", "S", "E", "N", "T">> @@
    SOCKET_STATE_SYN_RECV    :> <<"S", "Y", "N", "_", "R", "E", "C", "V">> @@
    SOCKET_STATE_FIN_WAIT1   :> <<"F", "I", "N", "_", "W", "A", "I", "T", "1">> @@
    SOCKET_STATE_FIN_WAIT2   :> <<"F", "I", "N", "_", "W", "A", "I", "T", "2">> @@
    SOCKET_STATE_TIME_WAIT   :> <<"T", "I", "M", "E", "_", "W", "A", "I", "T">> @@
    SOCKET_STATE_CLOSE       :> <<"C", "L", "O", "S", "E">> @@
    SOCKET_STATE_CLOSE_WAIT  :> <<"C", "L", "O", "S", "E", "_", "W", "A", "I", "T">> @@
    SOCKET_STATE_LAST_ACK    :> <<"L", "A", "S", "T", "_", "A", "C", "K">> @@
    SOCKET_STATE_LISTEN      :> <<"L", "I", "S", "T", "E", "N">> @@
    SOCKET_STATE_CLOSING     :> <<"C", "L", "O", "S", "I", "N", "G">>

\* a Process value; User, Name, Pid and Exe are never set by netstat
Process(state, ip, port, fip, fport) ==
    [User |-> <<>>, Name |-> <<>>, Pid |-> <<>>, Exe |-> <<>>,
     State |-> state, IP |-> ip, Port |-> port,
     ForeignIP |-> fip, ForeignPort |-> fport]

ZeroProcess == Process(<<>>, <<>>, 0, <<>>, 0)

----------------------------------------------------------------------------
(* getData *)

\* the if / else-if chain on t; the else branch prints and exits
procPath(tsel) ==
    IF tsel = "tcp" THEN [st |-> "ok", v |-> PROC_TCP]
    ELSE IF tsel = "udp" THEN [st |-> "ok", v |-> PROC_UDP]
    ELSE IF tsel = "tcp6" THEN [st |-> "ok", v |-> PROC_TCP6]
    ELSE IF tsel = "udp6" THEN [st |-> "ok", v |-> PROC_UDP6]
    ELSE [st |-> "exit", v |-> ""]

\* a slip that keeps the last element of the split
dataSliceKeepLast(lines) == [lo |-> 1, hi |-> Len(lines)]

\* the bounds of the returned slice: lines[1 : len(lines)-1]
dataSlice(lines) == [lo |-> 1, hi |-> Len(lines) - 1]

\* what getData does with the bytes ReadFile returned (f.readable: err == nil)
getData(f) ==
    IF ~f.readable THEN [st |-> "exit", v |-> <<>>]
    ELSE LET lines == Split(f.content, "\n")
             b     == dataSlice(lines)
         IN  IF ~SliceOK(lines, b.lo, b.hi) THEN [st |-> "panic", v |-> <<>>]
             ELSE [st |-> "ok", v |-> Slice(lines, b.lo, b.hi)]

----------------------------------------------------------------------------
(* the body of netstat's range loop, for one line *)

removeEmpty(array) == SelectSeq(array, LAMBDA i : i # <<>>)

\* Go's a[k] (0-based); HasAt is the run-time index check
HasAt(a, k) == k < Len(a)
At(a, k) == a[k + 1]

Fail(st) == [st |-> st, v |-> ZeroProcess]

parseLine(line) ==
    LET lineArray == removeEmpty(Split(TrimSpace(line), " "))
    IN  IF ~HasAt(lineArray, 1) THEN Fail("panic")
        ELSE
        LET ipPort == Split(At(lineArray, 1), ":")
            ip     == convertIP(At(ipPort, 0))
        IN  IF ip.st # "ok" THEN Fail(ip.st)
            ELSE IF ~HasAt(ipPort, 1) THEN Fail("panic")
            ELSE
            LET port == hexToDec(At(ipPort, 1))
            IN  IF port.st # "ok" THEN Fail(port.st)
                ELSE IF ~HasAt(lineArray, 2) THEN Fail("panic")
                ELSE
                LET fipPort == Split(At(lineArray, 2), ":")
                    fip     == convertIP(At(fipPort, 0))
                IN  IF fip.st # "ok" THEN Fail(fip.st)
                    ELSE IF ~HasAt(fipPort, 1) THEN Fail("panic")
                    ELSE
                    LET fport == hexToDec(At(fipPort, 1))
                    IN  IF fport.st # "ok" THEN Fail(fport.st)
                        ELSE IF ~HasAt(lineArray, 3) THEN Fail("panic")
                        ELSE [st |-> "ok",
                              v  |-> Process(At(lineArray, 3), ip.v, port.v,
                                             fip.v, fport.v)]

----------------------------------------------------------------------------
(* The table contents the calls can observe *)

\* the column header line
Header ==
    <<" ", " ", "s", "l", " ", " ", "l", "o", "c", "a", "l", "_", "a", "d",
      "d", "r", "e", "s", "s", " ", "r", "e", "m", "_", "a", "d", "d", "r",
      "e", "s", "s", " ", " ", " ", "s", "t">>

\* 127.0.0.1:80 listening, with the columns after st that the kernel prints
LnListen ==
    <<" ", " ", " ", "0", ":", " ", "0", "1", "0", "0", "0", "0", "7", "F",
      ":", "0", "0", "5", "0", " ", "0", "0", "0", "0", "0", "0", "0", "0",
      ":", "0", "0", "0", "0", " ", "0", "A", " ", "0", "0", "0", "0", "0",
      "0", "0", "0", ":", "0", "0", "0", "0", "0", "0", "0", "0", " ", "0",
      "0", ":", "0", "0", "0", "0", "0", "0", "0", "0", " ", "0", "0", "0",
      "0", "0", "0", "0", "0", " ", " ", "0", " ", "0", " ", "1", "2", "3",
      "4", "5">>

\* 192.168.1.10:8080 -> 192.168.1.1:443 established; doubled and trailing blanks
LnEstab ==
    <<" ", " ", " ", "1", ":", " ", "0", "A", "0", "1", "A", "8", "C", "0",
      ":", "1", "F", "9", "0", " ", " ", "0", "1", "0", "1", "A", "8", "C",
      "0", ":", "0", "1", "B", "B", " ", "0", "1", " ">>

\* a state code that is not a key of STATE
LnUnknown ==
    <<" ", " ", " ", "2", ":", " ", "0", "1", "0", "0", "0", "0", "7", "F",
      ":", "0", "0", "3", "5", " ", "0", "0", "0", "0", "0", "0", "0", "0",
      ":", "0", "0", "0", "0", " ", "F", "F">>

\* [::1]:22 listening, as /proc/net/tcp6 prints it
LnV6 ==
    <<" ", " ", " ", "3", ":", " ", "0", "0", "0", "0", "0", "0", "0", "0",
      "0", "0", "0", "0", "0", "0", "0", "0", "0", "0", "0", "0", "0", "0",
      "0", "0", "0", "1", "0", "0", "0", "0", "0", "0", ":", "0", "0", "1",
      "6", " ", "0", "0", "0", "0", "0", "0", "0", "0", "0", "0", "0", "0",
      "0", "0", "0", "0", "0", "0", "0", "0", "0", "0", "0", "0", "0", "0",
      "0", "0", "0", "0", "0", "0", ":", "0", "0", "0", "0", " ", "0", "A">>

\* a line of two tokens
LnShort ==
    <<" ", " ", " ", "4", ":", " ", "0", "1", "0", "0", "0", "0", "7", "F",
      ":", "0", "0", "5", "0">>

\* a port token of five hexadecimal digits (65536)
LnBigPort ==
    <<" ", " ", " ", "5", ":", " ", "0", "1", "0", "0", "0", "0", "7", "F",
      ":", "1", "0", "0", "0", "0", " ", "0", "0", "0", "0", "0", "0", "0",
      "0", ":", "0", "0", "0", "0", " ", "0", "A">>

\* a port token that is not hexadecimal
LnBadHex ==
    <<" ", " ", " ", "6", ":", " ", "0", "1", "0", "0", "0", "0", "7", "F",
      ":", "0", "0", "Z", "Z", " ", "0", "0", "0", "0", "0", "0", "0", "0",
      ":", "0", "0", "0", "0", " ", "0", "A">>

MaxLines == 2
MaxConcLines == 1
NumCalls == 2

Calls == 1..NumCalls
\* the goroutines that call netstat when calls do not overlap
MainCalls == {1}

Rows == {LnListen, LnEstab, LnUnknown, LnV6, LnShort, LnBigPort, LnBadHex}

RowSeqs(S, n) == UNION {[1..k -> S] : k \in 0..n}

\* the bytes of a table: header and rows, each line but the last followed by
\* a line terminator, the last one too iff nl
Render(rows, nl) ==
    Join(<<Header>> \o rows, <<"\n">>) \o (IF nl THEN <<"\n">> ELSE <<>>)

\* what one ReadFile call observed; header, rows and nl describe content
MkFile(rows, nl) ==
    [read |-> TRUE, readable |-> TRUE, header |-> TRUE, rows |-> rows,
     nl |-> nl, content |-> Render(rows, nl)]
EmptyFile ==
    [read |-> TRUE, readable |-> TRUE, header |-> FALSE, rows |-> <<>>,
     nl |-> FALSE, content |-> <<>>]
Unreadable ==
    [read |-> TRUE, readable |-> FALSE, header |-> FALSE, rows |-> <<>>,
     nl |-> FALSE, content |-> <<>>]
NotRead ==
    [read |-> FALSE, readable |-> FALSE, header |-> FALSE, rows |-> <<>>,
     nl |-> FALSE, content |-> <<>>]

ProcPaths == {PROC_TCP, PROC_UDP, PROC_TCP6, PROC_UDP6}

Files ==
    [path \in ProcPaths |->
        {MkFile(r, nl) : r \in RowSeqs(Rows, MaxLines), nl \in BOOLEAN}
            \cup {EmptyFile, Unreadable}]

\* the row each table repeats while calls overlap
ConcRow ==
    PROC_TCP :> LnListen @@ PROC_UDP :> LnEstab @@
    PROC_TCP6 :> LnV6 @@ PROC_UDP6 :> LnUnknown

ConcFiles ==
    [path \in ProcPaths |->
        {MkFile(r, TRUE) : r \in RowSeqs({ConcRow[path]}, MaxConcLines)}
            \cup (IF path = PROC_UDP6 THEN {Unreadable} ELSE {})]

----------------------------------------------------------------------------
(* netstat and the four entry points *)

Ended(st) == IF st = "ok" THEN "running"
             ELSE IF st = "exit" THEN "exited" ELSE "panicked"

\* a slip that makes Processes a package-level variable
frameShared(c) == CHOOSE m \in MainCalls : TRUE

\* the activation that holds call c's local variable Processes
frame(c) == c

\* entry of netstat(tsel): getData, up to the first iteration of the loop.
\* F[path] is the set of contents ReadFile can observe at path.
netstat(c, tsel, F) ==
    /\ host = "running"
    /\ pc[c] = "idle"
    /\ t' = [t EXCEPT ![c] = tsel]
    /\ LET p == procPath(tsel)
       IN  IF p.st # "ok"
           THEN /\ host' = "exited"
                /\ stdout' = Append(stdout, "invalid type")
                /\ UNCHANGED <<file, data, pc, Processes>>
           ELSE \E f \in F[p.v] :
                LET d == getData(f)
                IN  /\ file' = [file EXCEPT ![c] = f]
                    /\ host' = Ended(d.st)
                    /\ stdout' = IF d.st = "exit"
                                 THEN Append(stdout, "read error") ELSE stdout
                    /\ data' = [data EXCEPT ![c] = d.v]
                    /\ pc' = IF d.st = "ok" THEN [pc EXCEPT ![c] = "loop"] ELSE pc
                    /\ Processes' = IF d.st = "ok"
                                    THEN [Processes EXCEPT ![frame(c)] = <<>>]
                                    ELSE Processes
    /\ UNCHANGED <<STATEmap, idx, ret, ipVars, pidVars>>

Tcp(c, F)  == netstat(c, "tcp", F)
Udp(c, F)  == netstat(c, "udp", F)
Tcp6(c, F) == netstat(c, "tcp6", F)
Udp6(c, F) == netstat(c, "udp6", F)

\* netstat is also callable inside the package with any string
OtherSelectors == {"raw", ""}
NetstatOther(c, F) == \E tsel \in OtherSelectors : netstat(c, tsel, F)

\* one iteration of the range loop over data
LoopStep(c) ==
    /\ host = "running"
    /\ pc[c] = "loop"
    /\ idx[c] < Len(data[c])
    /\ LET r == parseLine(At(data[c], idx[c]))
       IN  /\ host' = Ended(r.st)
           /\ stdout' = IF r.st = "exit"
                        THEN Append(stdout, "parse error") ELSE stdout
           /\ Processes' = IF r.st = "ok"
                           THEN [Processes EXCEPT ![frame(c)] = Append(@, r.v)]
                           ELSE Processes
           /\ idx' = IF r.st = "ok" THEN [idx EXCEPT ![c] = @ + 1] ELSE idx
    /\ UNCHANGED <<STATEmap, pc, t, file, data, ret, ipVars, pidVars>>

\* the loop is exhausted: return Processes
Return(c) ==
    /\ host = "running"
    /\ pc[c] = "loop"
    /\ idx[c] = Len(data[c])
    /\ ret' = [ret EXCEPT ![c] = Processes[frame(c)]]
    /\ pc' = [pc EXCEPT ![c] = "done"]
    /\ UNCHANGED <<host, STATEmap, stdout, t, file, data, idx, Processes,
                   ipVars, pidVars>>

----------------------------------------------------------------------------
(* findPid *)

\* regexp FindString for a pattern of decimal digits: the leftmost
\* occurrence of re in s, or the empty string
FindString(re, s) ==
    LET occ == {i \in 1..(Len(s) - Len(re) + 1) : SubSeq(s, i, i + Len(re) - 1) = re}
    IN  IF occ = {} THEN <<>>
        ELSE LET i == CHOOSE k \in occ : \A m \in occ : k <= m
             IN  SubSeq(s, i, i + Len(re) - 1)

\* the descriptor links the glob can return, in the order it returns them
LinkPaths == << <<"/", "p", "r", "o", "c", "/", "1", "/", "f", "d", "/", "0">>,
               <<"/", "p", "r", "o", "c", "/", "1", "/", "f", "d", "/", "3">>,
               <<"/", "p", "r", "o", "c", "/", "2", "2", "/", "f", "d", "/", "3">> >>

\* link targets; Unreadlinkable stands for a Readlink error
Unreadlinkable == <<"!">>
LinkTargets == { <<"s", "o", "c", "k", "e", "t", ":", "[", "1", "2", "3", "]">>,
                 <<"s", "o", "c", "k", "e", "t", ":", "[", "4", "1", "2", "3", "]">>,
                 <<"/", "d", "e", "v", "/", "n", "u", "l", "l">>,
                 Unreadlinkable }
Absent == <<>>

Inodes == { <<"1", "2", "3">>, <<"4", "1", "2", "3">> }

\* the glob result for one choice of which links exist and where they point
GlobResult(g) ==
    LET present == SelectSeq([k \in 1..Len(LinkPaths) |-> k], LAMBDA k : g[k] # Absent)
    IN  [j \in 1..Len(present) |->
            [item     |-> LinkPaths[present[j]],
             readable |-> g[present[j]] # Unreadlinkable,
             target   |-> g[present[j]]]]

\* one iteration of the range loop over d
FindPidStep ==
    /\ pidPc = "scan"
    /\ pidIdx < Len(links)
    /\ LET l     == At(links, pidIdx)
           out   == IF l.readable THEN FindString(inode, l.target) ELSE <<>>
           found == l.readable /\ Len(out) # 0
       IN  /\ pid' = IF found THEN At(Split(l.item, "/"), 2) ELSE pid
           /\ pidIdx' = pidIdx + 1   \* no break: the scan goes on after a match
    /\ UNCHANGED <<links, inode, pidPc, netVars, ipVars>>

\* the loop is exhausted: return pid
FindPidReturn ==
    /\ pidPc = "scan"
    /\ pidIdx = Len(links)
    /\ pidPc' = "done"
    /\ UNCHANGED <<links, inode, pidIdx, pid, netVars, ipVars>>

----------------------------------------------------------------------------
(* HexCodec harness: convertIP applied to address tokens as the kernel     *)
(* prints them (%08X per 32-bit word, host byte order), and to a few       *)
(* tokens of other shapes.                                                 *)

Octets == {0, 1, 10, 127, 192, 255}

\* one byte as the kernel prints it: two upper-case hexadecimal digits
Hex2(n) == <<HexUpper[(n \div 16) + 1], HexUpper[(n % 16) + 1]>>

\* the little-endian token of the IPv4 literal o[1].o[2].o[3].o[4]
EncodeIPv4(o) == Hex2(o[4]) \o Hex2(o[3]) \o Hex2(o[2]) \o Hex2(o[1])

Quads == Octets \X Octets \X Octets \X Octets
Tokens4 == {EncodeIPv4(o) : o \in Quads}

\* 4-byte words of an IPv6 token, as sequences of byte values in token order
Words6 == { <<0, 0, 0, 0>>, <<184, 13, 1, 32>>, <<1, 0, 0, 0>>, <<0, 0, 255, 255>> }
EncodeWord(w) == Hex2(w[1]) \o Hex2(w[2]) \o Hex2(w[3]) \o Hex2(w[4])
Tokens6 == {EncodeWord(a) \o EncodeWord(b) \o EncodeWord(c) \o EncodeWord(d) :
                <<a, b, c, d>> \in Words6 \X Words6 \X Words6 \X Words6}

OddTokens == { <<"Z", "Z", "0", "0", "0", "0", "7", "F">>,
               <<"0", "1", "0", "0">>,
               <<"0", "1", "0", "0", "0", "0", "7", "F", "0", "0">>,
               <<"0", "1", "0", "0", "0", "0", "7", "f">> }

NoResult == [st |-> "none", v |-> <<>>]

NetInit ==
    /\ host = "running"
    /\ STATEmap = InitialSTATE
    /\ stdout = <<>>
    /\ pc = [c \in Calls |-> "idle"]
    /\ t = [c \in Calls |-> ""]
    /\ file = [c \in Calls |-> NotRead]
    /\ data = [c \in Calls |-> <<>>]
    /\ idx = [c \in Calls |-> 0]
    /\ Processes = [c \in Calls |-> <<>>]
    /\ ret = [c \in Calls |-> <<>>]

IPIdle == ipIn = <<>> /\ ipRes = NoResult

PidIdle ==
    /\ links = <<>>
    /\ inode = <<>>
    /\ pidPc = "done"
    /\ pidIdx = 0
    /\ pid = <<"-">>

ConvertIP ==
    /\ ipRes.st = "none"
    /\ ipRes' = convertIP(ipIn)
    /\ UNCHANGED <<ipIn, netVars, pidVars>>

----------------------------------------------------------------------------
(* Specifications *)

\* one call of netstat at a time
Init == NetInit /\ IPIdle /\ PidIdle

Next ==
    \E c \in MainCalls :
        \/ Tcp(c, Files)
        \/ Udp(c, Files)
        \/ Tcp6(c, Files)
        \/ Udp6(c, Files)
        \/ NetstatOther(c, Files)
        \/ LoopStep(c)
        \/ Return(c)

Spec == Init /\ [][Next]_vars

\* the entry points called from NumCalls goroutines
NextConc ==
    \E c \in Calls :
        \/ Tcp(c, ConcFiles)
        \/ Udp(c, ConcFiles)
        \/ Tcp6(c, ConcFiles)
        \/ Udp6(c, ConcFiles)
        \/ LoopStep(c)
        \/ Return(c)

SpecConc == Init /\ [][NextConc]_vars

\* convertIP on one token
InitIP ==
    /\ NetInit
    /\ PidIdle
    /\ ipIn \in Tokens4 \cup Tokens6 \cup OddTokens
    /\ ipRes = NoResult

NextIP == ConvertIP

SpecIP == InitIP /\ [][NextIP]_vars

\* findPid on one snapshot of the descriptor namespace
InitPid ==
    /\ NetInit
    /\ IPIdle
    /\ \E g \in [1..Len(LinkPaths) -> LinkTargets \cup {Absent}] : links = GlobResult(g)
    /\ inode \in Inodes
    /\ pidPc = "scan"
    /\ pidIdx = 0
    /\ pid = <<"-">>

NextPid == FindPidStep \/ FindPidReturn

SpecPid == InitPid /\ [][NextPid]_vars

----------------------------------------------------------------------------
(* What the rows of the tables above say, written out by hand *)

WellFormedRows == {LnListen, LnEstab, LnUnknown, LnV6}

RowFacts(row) ==
    CASE row = LnListen  -> [code |-> <<"0", "A">>, v4 |-> TRUE, port |-> 80, fport |-> 0,
                             ip |-> <<"1", "2", "7", ".", "0", ".", "0", ".", "1">>,
                             fip |-> <<"0", ".", "0", ".", "0", ".", "0">>]
      [] row = LnEstab   -> [code |-> <<"0", "1">>, v4 |-> TRUE, port |-> 8080, fport |-> 443,
                             ip |-> <<"1", "9", "2", ".", "1", "6", "8", ".", "1", ".", "1", "0">>,
                             fip |-> <<"1", "9", "2", ".", "1", "6", "8", ".", "1", ".", "1">>]
      [] row = LnUnknown -> [code |-> <<"F", "F">>, v4 |-> TRUE, port |-> 53, fport |-> 0,
                             ip |-> <<"1", "2", "7", ".", "0", ".", "0", ".", "1">>,
                             fip |-> <<"0", ".", "0", ".", "0", ".", "0">>]
      [] row = LnV6      -> [code |-> <<"0", "A">>, v4 |-> FALSE, port |-> 22, fport |-> 0,
                             ip |-> <<>>, fip |-> <<>>]

\* record p carries the ports of row, and its addresses when row is IPv4
FromRow(p, row) ==
    LET f == RowFacts(row)
    IN  /\ p.Port = f.port
        /\ p.ForeignPort = f.fport
        /\ f.v4 => (p.IP = f.ip /\ p.ForeignIP = f.fip)

Unknown == <<"u", "n", "k", "n", "o", "w", "n">>

\* the table observed by call c has a header, a trailing line terminator
\* and rows of S only
TableOf(c, S) ==
    /\ file[c].read /\ file[c].readable /\ file[c].header /\ file[c].nl
    /\ \A i \in 1..Len(file[c].rows) : file[c].rows[i] \in S

----------------------------------------------------------------------------
(* Claims *)

\* C1: the State of every record is the STATE name of the state code of its
\* line, and "unknown" when the code is not a key of STATE.
C1_StateIsTableName ==
    \A c \in Calls : \A i \in 1..Len(Processes[c]) :
        file[c].rows[i] \in WellFormedRows =>
            LET code == RowFacts(file[c].rows[i]).code
            IN  Processes[c][i].State =
                    IF code \in DOMAIN STATEmap THEN STATEmap[code] ELSE Unknown

\* the hextets the claim states for word w (0..3) of a 32-character token:
\* bytes b0 b1 b2 b3 give b3b2 and b1b0
WordHextets(ip, w) ==
    LET b(k) == Slice(ip, 8 * w + 2 * k, 8 * w + 2 * k + 2)
    IN  <<b(3) \o b(2), b(1) \o b(0)>>

ExpectedIPv6(ip) ==
    Join(WordHextets(ip, 0) \o WordHextets(ip, 1) \o
         WordHextets(ip, 2) \o WordHextets(ip, 3), <<":">>)

\* C2: a 32-character token is rendered as eight 4-digit groups, each word's
\* bytes b0 b1 b2 b3 giving the groups b3b2 and b1b0, words in token order.
C2_IPv6WordsByteReversed ==
    (Len(ipIn) = 32 /\ ipRes.st # "none") =>
        (ipRes.st = "ok" /\ ipRes.v = ExpectedIPv6(ipIn))

RECURSIVE ParseDec(_, _)
ParseDec(s, acc) ==
    IF s = <<>> THEN acc
    ELSE ParseDec(Tail(s),
                  acc * 10 + (CHOOSE d \in 0..9 : DecDigits[d + 1] = Head(s)))

\* standard dotted-quad parsing of a rendered address
ParseDottedQuad(s) ==
    LET parts == Split(s, ".") IN [k \in 1..Len(parts) |-> ParseDec(parts[k], 0)]

\* the 8-character tokens the kernel prints for the literals over Octets,
\* and the literal o[1].o[2].o[3].o[4] such a token encodes
IsKernelByte(h) == \E n \in Octets : Hex2(n) = h
OctetOf(h) == CHOOSE n \in Octets : Hex2(n) = h
IsKernelIPv4(ip) ==
    Len(ip) = 8 /\ \A k \in 0..3 : IsKernelByte(Slice(ip, 2 * k, 2 * k + 2))
LiteralOf(ip) ==
    <<OctetOf(Slice(ip, 6, 8)), OctetOf(Slice(ip, 4, 6)),
      OctetOf(Slice(ip, 2, 4)), OctetOf(Slice(ip, 0, 2))>>

Loopback == <<"0", "1", "0", "0", "0", "0", "7", "F">>

\* C3: an 8-character token b0 b1 b2 b3 is rendered "b3.b2.b1.b0" in
\* decimal, so the little-endian token of an IPv4 literal decodes to that
\* literal; "0100007F" gives "127.0.0.1".
C3_IPv4RoundTrip ==
    /\ (IsKernelIPv4(ipIn) /\ ipRes.st # "none") =>
          /\ ipRes.st = "ok"
          /\ ParseDottedQuad(ipRes.v) = LiteralOf(ipIn)
          /\ EncodeIPv4(ParseDottedQuad(ipRes.v)) = ipIn
          /\ \A i \in 1..Len(ipRes.v) :
                ipRes.v[i] = "." \/ \E d \in 1..10 : DecDigits[d] = ipRes.v[i]
    /\ (ipIn = Loopback /\ ipRes.st # "none") =>
          ipRes.v = <<"1", "2", "7", ".", "0", ".", "0", ".", "1">>

C3_Witness ==
    /\ ipIn = EncodeIPv4(<<192, 1, 10, 255>>)
    /\ ipRes.st = "ok"
    /\ ipRes.v = <<"1", "9", "2", ".", "1", ".", "1", "0", ".", "2", "5", "5">>

\* C4: no fatal condition terminates the host process, and a call with an
\* unsupported selector reads no table.
C4_FatalErrorsReturned ==
    /\ host # "exited"
    /\ \A c \in Calls : procPath(t[c]).st # "ok" => ~file[c].read

\* C5: a table with a line of two tokens among well-formed lines does not
\* abort the call; the call returns the records of the well-formed lines.
C5_ShortLineSkipped ==
    \A c \in Calls :
        (/\ TableOf(c, WellFormedRows \cup {LnShort})
         /\ \E i \in 1..Len(file[c].rows) : file[c].rows[i] = LnShort) =>
            /\ host = "running"
            /\ pc[c] = "done" =>
                  Len(ret[c]) = Cardinality({i \in 1..Len(file[c].rows) :
                                                file[c].rows[i] \in WellFormedRows})

\* C6: a table holding only the header line, with or without a trailing
\* line terminator, gives zero records and neither an error nor a crash.
C6_HeaderOnlyGivesNoRecords ==
    \A c \in Calls :
        (file[c].read /\ file[c].readable /\ file[c].header /\ file[c].rows = <<>>) =>
            /\ host = "running"
            /\ pc[c] = "done" => ret[c] = <<>>

\* C7: for a table (header, rows, trailing line terminator) whose rows are
\* all well-formed, the call is not aborted and returns one record per row
\* in table order: the i-th record carries the ports (and IPv4 addresses)
\* of the i-th row.
C7_OneRecordPerLineInOrder ==
    \A c \in Calls :
        TableOf(c, WellFormedRows) =>
            /\ host = "running"
            /\ Len(data[c]) = Len(file[c].rows)
            /\ Len(Processes[c]) = idx[c]
            /\ pc[c] = "done" =>
                  /\ Len(ret[c]) = Len(file[c].rows)
                  /\ \A i \in 1..Len(ret[c]) : FromRow(ret[c][i], file[c].rows[i])

C7_Witness ==
    \E c \in MainCalls :
        /\ pc[c] = "done"
        /\ TableOf(c, WellFormedRows)
        /\ file[c].rows = <<LnEstab, LnListen>>
        /\ Len(ret[c]) = 2
        /\ ret[c][1].Port = 8080
        /\ ret[c][2].Port = 80

\* C8: Port and ForeignPort of every record are in 0..65535.
C8_PortsInRange ==
    \A c \in Calls : \A i \in 1..Len(Processes[c]) :
        /\ Processes[c][i].Port \in 0..65535
        /\ Processes[c][i].ForeignPort \in 0..65535

\* the records netstat returns when it runs alone on the table f
Alone(f) ==
    LET d == getData(f).v IN [i \in 1..Len(d) |-> parseLine(d[i]).v]

\* C9: under any interleaving of concurrent calls STATE keeps its initial
\* contents, and what a call returns is what it returns running alone on
\* the table contents it observed.
C9_ConcurrentCallsIndependent ==
    /\ STATEmap = InitialSTATE
    /\ \A c \in Calls : pc[c] = "done" => ret[c] = Alone(file[c])

C9_Witness ==
    /\ \A c \in Calls : pc[c] = "done"
    /\ file[1].rows = <<LnListen>>
    /\ file[2].rows = <<LnEstab>>
    /\ t[1] # t[2]
    /\ Len(ret[1]) = 1 /\ ret[1][1].Port = 80
    /\ Len(ret[2]) = 1 /\ ret[2][1].Port = 8080

\* the readable links whose target contains the inode, in scan order
Matching ==
    SelectSeq(links, LAMBDA l : l.readable /\ FindString(inode, l.target) # <<>>)

\* C10: findPid returns the pid of the first link whose readable target
\* contains the inode, and "-" when there is none.
C10_FirstMatchWins ==
    pidPc = "done" =>
        pid = IF Matching = <<>> THEN <<"-">>
              ELSE At(Split(Matching[1].item, "/"), 2)

====
